---- MODULE Spec2Model ----
(***************************************************************************)
(* A model of qorus-remote: the remote command client                      *)
(* (qorus_remote_commands.py: filter the oload arguments, resolve the      *)
(* upload set, upload, run the remote command, delete the remote           *)
(* directory) and the release packager (make_release.py: checkFiles,       *)
(* makeList, staging, createUserReleaseFile).                              *)
(*                                                                         *)
(* Paths.  A path is a sequence of components and a component is the       *)
(* sequence of its dot-separated parts: "res/a.html" is                    *)
(* << <<"res">>, <<"a", "html">> >>.  The empty sequence is the empty      *)
(* string '' (os.path.dirname of a bare file name).  A part "*" is the     *)
(* glob wildcard.  Directory names of the disk hold no dot.                *)
(***************************************************************************)
EXTENDS Integers, Sequences, FiniteSets, TLC

\* ------------------------------------------------------------------ bounds

\* longest argument list of a run
MaxArgs == 2

\* the most options of a command line of make-release
MaxOpts == 2

\* ------------------------------------------------------------------- paths

Last(s) == s[Len(s)]

\* os.path.dirname
dirname(p) == IF Len(p) = 0 THEN <<>> ELSE SubSeq(p, 1, Len(p) - 1)

\* os.path.basename
basename(p) == IF Len(p) = 0 THEN <<>> ELSE <<Last(p)>>

\* os.path.isabs: an absolute path starts with the root component "/"
isabs(p) == Len(p) > 0 /\ p[1] = <<"/">>

\* os.path.join(d, p)
join(d, p) == IF isabs(p) THEN p ELSE d \o p

\* the string ends in ".<ext>"
EndsWithExt(p, ext) ==
    /\ Len(p) > 0
    /\ Len(Last(p)) >= 2
    /\ Last(Last(p)) = ext

\* ofile[-5:] == '.yaml' or ofile[-4:] == '.yml'
IsYamlName(p) == EndsWithExt(p, "yaml") \/ EndsWithExt(p, "yml")

\* re.search('[*?]', path) / '*' in path
HasWildcard(p) == \E i \in 1..Len(p) : \E j \in 1..Len(p[i]) : p[i][j] = "*"

\* fnmatch of one component: "*" matches every name, "*.x" every name ending
\* in ".x", a name without wildcard itself
NameMatches(pat, name) ==
    IF pat = <<"*">> THEN TRUE
    ELSE IF Len(pat) > 0 /\ pat[1] = "*"
         THEN /\ Len(name) >= Len(pat)
              /\ SubSeq(name, Len(name) - Len(pat) + 2, Len(name)) = Tail(pat)
    ELSE pat = name

\* -------------------------------------------------------------------- disk
\* The files of the source root (the working directory of both programs).

P_a       == << <<"a", "qsd">> >>
P_svc     == << <<"svc", "qsd", "yaml">> >>
P_svcpy   == << <<"svc", "py">> >>
P_res     == << <<"res">> >>
P_reshtml == << <<"res">>, <<"a", "html">> >>
P_d       == << <<"d">> >>
P_job     == << <<"d">>, <<"job", "yaml">> >>
P_jobjava == << <<"d">>, <<"job", "java">> >>
P_rel     == << <<"rel", "qrf">> >>
P_missing == << <<"missing", "qsd">> >>
P_q       == << <<"q">> >>
P_bak     == << <<"d">>, <<"job", "yaml~">> >>
P_old     == << <<"d">>, <<"old">> >>
P_oldx    == << <<"d">>, <<"old">>, <<"x", "qsd">> >>
P_lib     == << <<"lib">> >>
P_mod     == << <<"lib">>, <<"m", "qm">> >>
P_liba    == << <<"lib">>, <<"a", "qsd">> >>
P_m       == << <<"m">> >>
P_ownmod  == << <<"m">>, <<"m", "qm">> >>
P_bad     == << <<"bad", "yaml">> >>
P_half    == << <<"half", "yaml">> >>
P_api     == << <<"api", "yaml">> >>
P_xsvc    == << <<"x", "qsd", "yaml">> >>
P_gsvc    == << <<"g", "qsd", "yaml">> >>
P_s       == << <<"s">> >>
P_ssvc    == << <<"s">>, <<"t", "qsd", "yaml">> >>
P_shtml   == << <<"s">>, <<"t", "html">> >>
P_py      == << <<"py">> >>
P_pyx     == << <<"py">>, <<"x", "py">> >>
P_nopy    == << <<"nopy">> >>
\* a file above the source root, and a service descriptor that names it
P_out     == << <<"..">>, <<"out", "qsd">> >>
P_osvc    == << <<"o", "qsd", "yaml">> >>

RegularFiles ==
    {P_a, P_svc, P_svcpy, P_reshtml, P_job, P_jobjava, P_rel, P_q, P_bak, P_oldx,
     P_mod, P_liba, P_ownmod, P_bad, P_half, P_api, P_xsvc, P_gsvc, P_ssvc,
     P_shtml, P_pyx, P_out, P_osvc}
Directories  == {P_res, P_d, P_old, P_lib, P_m, P_s, P_py}

\* os.path.isdir / os.path.exists
isdir(p)  == p \in Directories
exists(p) == p \in RegularFiles \cup Directories

\* open(p) succeeds
CanOpen(p) == p \in RegularFiles

\* glob.glob(pattern) for a pattern whose last component holds the wildcard
glob(pat) ==
    { f \in RegularFiles \cup Directories :
        /\ Len(f) = Len(pat)
        /\ dirname(f) = dirname(pat)
        /\ NameMatches(Last(pat), Last(f)) }

\* The YAML documents of the disk, as yaml.full_load returns them.  An absent
\* key is <<>>.
\* valid is FALSE for a file yaml.full_load raises on.
NoResources ==
    [resource |-> <<>>, text_resource |-> <<>>, bin_resource |-> <<>>, template |-> <<>>]

NoDoc ==
    [valid |-> TRUE, code |-> <<>>, res |-> NoResources, schema |-> <<>>,
     bad_am |-> FALSE]

\* bad.yaml is no YAML; half.yaml has a code file and an 'api-manager' key
\* whose value is a number (bad_am), so that "'provider-options' in
\* fh['api-manager']" raises; x.qsd.yaml names a resource that is not there
\* and g.qsd.yaml a pattern that matches nothing; api.yaml is no service
\* descriptor and has a resource list and an api-manager schema.
YamlDoc(p) ==
    IF p = P_svc
    THEN [NoDoc EXCEPT !.code = P_svcpy,
                       !.res.resource = << << <<"res">>, <<"*">> >> >>]
    ELSE IF p = P_job
    THEN [NoDoc EXCEPT !.code = << <<"job", "java">> >>]
    ELSE IF p = P_bad
    THEN [NoDoc EXCEPT !.valid = FALSE]
    ELSE IF p = P_half
    THEN [NoDoc EXCEPT !.code = P_svcpy, !.bad_am = TRUE]
    ELSE IF p = P_api
    THEN [NoDoc EXCEPT !.res.resource = << << <<"res">>, <<"*">> >> >>,
                       !.schema = P_reshtml]
    ELSE IF p = P_xsvc
    THEN [NoDoc EXCEPT !.res.resource = << << <<"res">>, <<"none", "html">> >> >>]
    ELSE IF p = P_gsvc
    THEN [NoDoc EXCEPT !.res.template = << << <<"res">>, <<"*", "txt">> >> >>]
    ELSE IF p = P_ssvc
    THEN [NoDoc EXCEPT !.res.resource = << << <<"t", "html">> >> >>]
    ELSE IF p = P_osvc
    THEN [NoDoc EXCEPT !.res.resource = << P_out >>]
    ELSE NoDoc

\* The legacy marker lines ("# resource: <name>") of the old-style service
\* files of the disk: the names they give.
LegacyMarkers(p) == IF p = P_a THEN << P_reshtml >> ELSE <<>>

\* The lines of a release manifest of the disk: the paths of its load lines.
QrfLoads(p) == IF p = P_rel THEN <<P_svc, P_job>> ELSE <<>>

\* A sequence as the set of its elements
Range(s) == {s[i] : i \in 1..Len(s)}

\* All sequences over S of length 0..n
SeqUpTo(S, n) == UNION {[1..k -> S] : k \in 0..n}

\* ======================================================================
\* qorus_remote_commands.py
\* ======================================================================

\* the marker of an HTML error document in a response body
HTML == "<html><head><title>"

\* what the upload endpoint may answer: nothing, a directory name, an HTML
\* error document
Bodies == {"", "R1", "R2", HTML}

\* the value of a request header that is not sent
NoHeader == "(none)"

\* an option of oload that takes its argument as the next word, and one that
\* does not (oload_check_option_with_spaced_arg)
OptSpaced == << <<"-D">> >>
OptPlain  == << <<"-v">> >>

oload_check_option_with_spaced_arg(opt) == opt = OptSpaced

\* arg[0] == '-'
IsOption(arg) == arg \in {OptSpaced, OptPlain}

\* the words a command line is drawn from
RemoteWords == {P_a, P_svc, P_rel, P_d, P_missing, P_bad, OptSpaced}

\* oloadparse_args: the words that are files, in order
RECURSIVE oloadparse_files(_, _)
oloadparse_files(words, coming_arg) ==
    IF words = <<>> THEN <<>>
    ELSE IF coming_arg THEN oloadparse_files(Tail(words), FALSE)
    ELSE IF IsOption(Head(words))
         THEN oloadparse_files(Tail(words),
                               oload_check_option_with_spaced_arg(Head(words)))
    ELSE <<Head(words)>> \o oloadparse_files(Tail(words), FALSE)

\* oloadparse_args: the words that are options or their arguments, in order
RECURSIVE oloadparse_opts(_, _)
oloadparse_opts(words, coming_arg) ==
    IF words = <<>> THEN <<>>
    ELSE IF coming_arg THEN <<Head(words)>> \o oloadparse_opts(Tail(words), FALSE)
    ELSE IF IsOption(Head(words))
         THEN <<Head(words)>> \o
              oloadparse_opts(Tail(words),
                              oload_check_option_with_spaced_arg(Head(words)))
    ELSE oloadparse_opts(Tail(words), FALSE)

\* list.remove(x): the list without its first element equal to x
RECURSIVE ListRemove(_, _)
ListRemove(list, x) ==
    IF list = <<>> THEN <<>>
    ELSE IF Head(list) = x THEN Tail(list)
    ELSE <<Head(list)>> \o ListRemove(Tail(list), x)

\* oload_remove_dir: "for ofile in ofiles: if isdir(ofile): ofiles.remove(ofile)".
\* The for loop reads ofiles[i] for i = 0, 1, ... while the list shrinks under it.
RECURSIVE oload_remove_dir_from(_, _)
oload_remove_dir_from(list, i) ==
    IF i > Len(list) THEN list
    ELSE IF isdir(list[i])
         THEN oload_remove_dir_from(ListRemove(list, list[i]), i + 1)
    ELSE oload_remove_dir_from(list, i + 1)

oload_remove_dir(list) == oload_remove_dir_from(list, 1)

\* oload_remove_files: the same loop, removing the paths that do not exist
RECURSIVE oload_remove_files_from(_, _)
oload_remove_files_from(list, i) ==
    IF i > Len(list) THEN list
    ELSE IF ~exists(list[i])
         THEN oload_remove_files_from(ListRemove(list, list[i]), i + 1)
    ELSE oload_remove_files_from(list, i + 1)

oload_remove_files(list) == oload_remove_files_from(list, 1)

\* oload_remove_dir_from_files: the base name of every file
oload_remove_dir_from_files(list) == [i \in 1..Len(list) |-> basename(list[i])]

\* oload_process_resource_path: the files a resource path stands for.  A path
\* with '*' is expanded by glob, a directory is expanded to its entries, any
\* other path is taken as it is (it is not checked to exist).
RECURSIVE oload_process_resource_path(_)
oload_process_resource_path(path) ==
    IF HasWildcard(path)
    THEN UNION {oload_process_resource_path(g) : g \in glob(path)}
    ELSE IF isdir(path)
         THEN oload_process_resource_path(path \o << <<"*">> >>)
    ELSE {path}

\* open(ofile) and yaml.full_load(of) and doc.get(...) succeed
YamlLoads(ofile) == CanOpen(ofile) /\ YamlDoc(ofile).valid

\* oload_add_src_files: the code file of every YAML file that declares one
oload_add_src_files(todo) ==
    { join(dirname(f), YamlDoc(f).code) :
        f \in {g \in todo : IsYamlName(g) /\ YamlDoc(g).code # <<>>} }

\* oload_add_resource_files: the files of the 'resource' list of every YAML
\* file, and its api-manager schema file
oload_add_resource_files(todo) ==
    UNION { UNION { oload_process_resource_path(
                        join(dirname(f), YamlDoc(f).res.resource[i])) :
                      i \in 1..Len(YamlDoc(f).res.resource) }
            \cup (IF YamlDoc(f).schema # <<>>
                  THEN {join(dirname(f), YamlDoc(f).schema)} ELSE {}) :
            f \in {g \in todo : IsYamlName(g)} }

\* oload_add_qrf_files: the path of every load line of every .qrf file,
\* relative to the directory of the .qrf file
oload_add_qrf_files(todo) ==
    UNION { {join(dirname(f), QrfLoads(f)[i]) : i \in 1..Len(QrfLoads(f))} :
            f \in {g \in todo : EndsWithExt(g, "qrf")} }

\* one of the three scans of oload_add_files raises: a YAML file that cannot
\* be opened or loaded or whose 'api-manager' value is malformed, a .qrf file
\* that cannot be opened
oload_add_files_raises(todo) ==
    \/ \E f \in todo : IsYamlName(f) /\ ~YamlLoads(f)
    \/ \E f \in todo : IsYamlName(f) /\ YamlDoc(f).bad_am
    \/ \E f \in todo : EndsWithExt(f, "qrf") /\ ~CanOpen(f)

\* oload_add_files: the files given and what the three scans of them add.
\* The scans read todo, a copy of the files given: what a scan adds is not
\* scanned itself.
\* (a variant that returns what the scans add without the files given)
oload_add_files_derived_only(given) ==
    oload_add_src_files(given) \cup oload_add_resource_files(given)
        \cup oload_add_qrf_files(given)

oload_add_files(given) ==
    LET todo == given
        tmp  == oload_add_src_files(todo) \cup oload_add_resource_files(todo)
                  \cup oload_add_qrf_files(todo)
    IN  given \cup tmp

\* a check of the response body that never finds the HTML marker
IsHtmlError_never(body) == FALSE

\* '<html><head><title>' in res.text
IsHtmlError(body) == body = HTML

\* "if not directory": no directory has been assigned yet
NoDirectory(directory) == directory = ""


\* ======================================================================
\* make_release.py
\* ======================================================================

LoadFileTypes ==
    {"qfd", "qsd", "java", "qclass", "qconst", "qwf", "qjob", "qconn", "qsm",
     "qmapper", "qvmap", "qscript", "qstep", "qmc", "yaml", "py"}

ExtraFileTypes ==
    {"wsdl", "xml", "xsd", "dtd", "qm", "qlib", "jar", "class", "json", "qtest",
     "qc", "qhtml", "qjs", "qjson"}

\* MakeRelease.getExt: what follows the last dot, '' without a dot
getExt(fn) == IF Len(fn) > 0 /\ Len(Last(fn)) >= 2 THEN Last(Last(fn)) ELSE ""

\* MakeRelease.is_readable
is_readable(path) == isdir(path) \/ CanOpen(path)

\* re.search('~$', path): the name of a backup file
IsBackup(p) == Len(p) > 0 /\ Last(Last(p)) \in {"qsd~", "yaml~"}

\* re.search('old$', path)
IsOld(p) == Len(p) > 0 /\ Last(Last(p)) = "old"

\* re.search('\\.qsd\\.yaml$', entry)
IsServiceDescriptor(p) ==
    /\ EndsWithExt(p, "yaml")
    /\ Len(Last(p)) >= 3
    /\ Last(p)[Len(Last(p)) - 1] = "qsd"

\* every order in which glob.glob may list the set S
Orders(S) ==
    {o \in [1..Cardinality(S) -> S] : \A i, j \in 1..Cardinality(S) : i # j => o[i] # o[j]}

\* the concatenations of one sequence out of each set of a sequence of sets
RECURSIVE ConcatChoices(_)
ConcatChoices(ss) ==
    IF ss = <<>> THEN {<<>>}
    ELSE {h \o t : h \in Head(ss), t \in ConcatChoices(Tail(ss))}

\* doFile2: what a path appends to the file list, for every order glob may
\* list a directory in.  Backup files, release files and "old" directories
\* are skipped, a directory stands for its entries.
RECURSIVE doFile2(_)
doFile2(path) ==
    IF IsBackup(path) THEN {<<>>}
    ELSE IF EndsWithExt(path, "qrf") THEN {<<>>}
    ELSE IF isdir(path)
         THEN IF IsOld(path) THEN {<<>>}
              ELSE UNION { ConcatChoices([i \in 1..Len(o) |-> doFile2(path \o basename(o[i]))]) :
                             o \in Orders(glob(path \o << <<"*">> >>)) }
    ELSE {<<path>>}

\* the mark of a wildcard argument that matches nothing
NoMatch == << <<"(no match)">> >>

\* checkFiles: the paths handed to doFile, in order: an argument with a
\* wildcard stands for its matches in the order glob lists them
ExpandArgs(args) ==
    ConcatChoices([i \in 1..Len(args) |->
        IF HasWildcard(args[i])
        THEN IF glob(args[i]) = {} THEN {<<NoMatch>>} ELSE Orders(glob(args[i]))
        ELSE {<<args[i]>>}])

\* checkFiles over the paths handed to doFile: the possible outcomes.
\* sys.exit(1) for a wildcard without match (checkFiles), an absolute path
\* (checkAbsolutePath) and a path that is not readable (doFile).
RECURSIVE doFiles(_, _)
doFiles(items, ulist) ==
    IF items = <<>> THEN {[status |-> "ok", ulist |-> ulist]}
    ELSE LET path == Head(items) IN
         IF path = NoMatch \/ isabs(path) THEN {[status |-> "exit", ulist |-> ulist]}
         ELSE IF IsBackup(path) THEN doFiles(Tail(items), ulist)
         ELSE UNION { IF is_readable(path)
                      THEN doFiles(Tail(items), ulist \o added)
                      ELSE {[status |-> "exit", ulist |-> ulist \o added]} :
                      added \in doFile2(path) }

\* (a variant that passes over a wildcard without match)
checkFiles_skips_unmatched(args) ==
    UNION {doFiles(SelectSeq(items, LAMBDA x : x # NoMatch), <<>>) :
             items \in ExpandArgs(args)}

checkFiles(args) == UNION {doFiles(items, <<>>) : items \in ExpandArgs(args)}

\* the resource names of a service descriptor in the order processFile goes
\* through them: the four resource kinds, then the api-manager schema
ResourceNames(doc) ==
    doc.res.resource \o doc.res.text_resource \o doc.res.bin_resource
        \o doc.res.template
        \o (IF doc.schema # <<>> THEN <<doc.schema>> ELSE <<>>)

\* (a variant that records the resource without looking for it)
processResource_unchecked(entry, st, resource_name) ==
    [st EXCEPT !.res = Append(@, [source |-> join(dirname(entry), resource_name),
                                   target |-> resource_name])]

\* processResource on the state st of makeList: [status, made, map, res]
processResource(entry, st, resource_name) ==
    LET resource_path == join(dirname(entry), resource_name) IN
    IF isabs(resource_name) THEN [st EXCEPT !.status = "exit"]
    ELSE IF ~HasWildcard(resource_name) /\ ~is_readable(resource_path)
         THEN [st EXCEPT !.status = "exit"]
    ELSE IF HasWildcard(resource_name) /\ glob(resource_path) = {}
         THEN [st EXCEPT !.status = "exit"]
    ELSE [st EXCEPT !.res = Append(@, [source |-> resource_path,
                                        target |-> resource_name])]

RECURSIVE processResources(_, _, _)
processResources(entry, names, st) ==
    IF names = <<>> \/ st.status # "ok" THEN st
    ELSE processResources(entry, Tail(names), processResource(entry, st, Head(names)))

\* the code file of a descriptor is appended when it is readable and not in
\* the map of the files seen
AddsCode(src, map) == is_readable(src) /\ src \notin map

\* the old-style scan of processFile runs: "resource_list and .qsd"
LegacyScanRuns(entry, res) == res # <<>> /\ EndsWithExt(entry, "qsd")

\* processFile.  An exception of the YAML block is caught and the block
\* left: for a file that cannot be opened or loaded before anything is
\* added, for a malformed 'api-manager' value after the code file has been
\* added.  sys.exit of processResource is not caught.  The old-style scan calls e.readLines(),
\* which no file object has: an AttributeError outside every try.
processFile(entry, st) ==
    LET st1 == [st EXCEPT !.made = Append(@, entry)]
        doc == YamlDoc(entry)
        src == join(dirname(entry), doc.code)
        st2 == IF doc.code # <<>> /\ AddsCode(src, st1.map)
               THEN [st1 EXCEPT !.map = @ \cup {src}, !.made = Append(@, src)]
               ELSE st1
        st3 == IF EndsWithExt(entry, "yaml") /\ CanOpen(entry) /\ doc.valid
               THEN IF doc.bad_am THEN st2
                    ELSE IF IsServiceDescriptor(entry)
                    THEN processResources(entry, ResourceNames(doc), st2)
                    ELSE st2
               ELSE st1
    IN  IF st3.status # "ok" THEN st3
        ELSE IF LegacyScanRuns(entry, st3.res) THEN [st3 EXCEPT !.status = "crash"]
        ELSE st3

RECURSIVE makeListFrom(_, _)
makeListFrom(entries, st) ==
    IF entries = <<>> \/ st.status # "ok" THEN st
    ELSE IF IsBackup(Head(entries)) THEN makeListFrom(Tail(entries), st)
    ELSE makeListFrom(Tail(entries), processFile(Head(entries), st))

\* makeList: the list made, the resources found, and how it ended
makeList(file_list) ==
    makeListFrom(file_list,
                 [status |-> "ok", made |-> <<>>, map |-> Range(file_list), res |-> <<>>])

\* The -q option is stored as one string (argparse, no action): the loops
\* over it yield its characters, each taken as a file name.  The model holds
\* the option as the sequence of its characters.
CharPath(c) == << <<c>> >>

UsqlItems(usql) == [i \in 1..Len(usql) |-> CharPath(usql[i])]

\* ------------------------------------------------------------ strings
\* The text of a path, for the places where the code slices path strings.

RECURSIVE JoinStr(_, _)
JoinStr(parts, sep) ==
    IF parts = <<>> THEN ""
    ELSE IF Len(parts) = 1 THEN parts[1]
    ELSE parts[1] \o sep \o JoinStr(Tail(parts), sep)

Str(p) ==
    IF isabs(p) THEN "/" \o JoinStr([i \in 1..Len(p) - 1 |-> JoinStr(p[i + 1], ".")], "/")
    ELSE JoinStr([i \in 1..Len(p) |-> JoinStr(p[i], ".")], "/")

\* s[0:b] of Python: a negative b counts from the end
PySliceTo(s, b) ==
    IF b >= 0 THEN SubSeq(s, 1, IF b < Len(s) THEN b ELSE Len(s))
    ELSE SubSeq(s, 1, IF Len(s) + b > 0 THEN Len(s) + b ELSE 0)

\* s[a:] of Python, a >= 0
PySliceFrom(s, a) == SubSeq(s, a + 1, Len(s))

\* the path a text names, among the paths of the disk and their directories
KnownPaths ==
    RegularFiles \cup Directories \cup {<<>>}

ParsePath(s) == CHOOSE p \in KnownPaths : Str(p) = s

\* ------------------------------------------------------------ staging
\* A staged tree or an archive is a set of members [at, src]: the file src
\* of the source root stored at the path at.

\* shutil.copy of src to the path at: a member already there is replaced
CopyTo(tree, at, src) ==
    {m \in tree : m.at # at} \cup {[at |-> at, src |-> src]}

\* doGlob: the copies it makes for the pattern fn under the directory d into
\* tdir; a directory among the matches is entered with the same pattern
RECURSIVE doGlob(_, _, _)
doGlob(d, fn, tdir) ==
    UNION { IF IsBackup(f) THEN {}
            ELSE IF isdir(f)
                 THEN doGlob(d, SubSeq(f, Len(d) + 1, Len(f)) \o basename(fn), tdir)
            ELSE IF ~CanOpen(f) THEN {}
            ELSE {[at |-> tdir \o dirname(fn) \o basename(f), src |-> f]} :
            f \in glob(d \o fn) }

\* doResources for one resource on the staging state st: [status, tree].
\* A pattern is copied by doGlob from d + '/' + dirname(fn): for a resource
\* in the source root itself d is '', the glob runs in '/', and nothing of
\* the source root matches.  A resource that is a directory is given to
\* shutil.copytree with a target that exists, which raises.
doResource(rh, st, dir_name) ==
    LET d    == dirname(rh.source)
        fn   == basename(rh.source)
        tdir == dir_name \o dirname(rh.target)
    IN  IF HasWildcard(fn)
        THEN IF d = <<>> THEN st
             ELSE [st EXCEPT !.tree = {m \in @ : \A c \in doGlob(d, fn, tdir) : c.at # m.at}
                                         \cup doGlob(d, fn, tdir)]
        ELSE IF ~CanOpen(rh.source) THEN [st EXCEPT !.status = "crash"]
        ELSE [st EXCEPT !.tree = CopyTo(@, tdir \o fn, rh.source)]

RECURSIVE doResources(_, _, _)
doResources(resource_list, st, dir_name) ==
    IF resource_list = <<>> \/ st.status # "ok" THEN st
    ELSE doResources(Tail(resource_list),
                     doResource(Head(resource_list), st, dir_name), dir_name)

\* the directory a file is copied to under flat-prefix relocation:
\*   if base_dir != file_base_dir and file_base_dir[0:len(base_dir) - 1] == base_dir:
\*       targ_dir = os.path.join(dir_name, file_base_dir[len(base_dir) + 1:]) + os.sep
PrefTargDir(dir_name, base_dir, file_base_dir) ==
    IF /\ base_dir # file_base_dir
       /\ PySliceTo(Str(file_base_dir), Len(Str(base_dir)) - 1) = Str(base_dir)
    THEN dir_name \o ParsePath(PySliceFrom(Str(file_base_dir), Len(Str(base_dir)) + 1))
    ELSE dir_name

\* copyFiles of every file of the list into its directory under dir_name
RECURSIVE PrefCopy(_, _, _, _)
PrefCopy(file_list, st, dir_name, base_dir) ==
    IF file_list = <<>> \/ st.status # "ok" THEN st
    ELSE LET fn == Head(file_list) IN
         IF ~CanOpen(fn) THEN [st EXCEPT !.status = "crash"]
         ELSE PrefCopy(Tail(file_list),
                       [st EXCEPT !.tree = CopyTo(@, PrefTargDir(dir_name, base_dir, dirname(fn))
                                                       \o basename(fn), fn)],
                       dir_name, base_dir)

\* doCreateTar of the file list and doExtractTar under dir_name: every file
\* at its own relative path; tar.add raises on a file that is not there
RECURSIVE TarExtract(_, _, _)
TarExtract(file_list, st, dir_name) ==
    IF file_list = <<>> \/ st.status # "ok" THEN st
    ELSE LET fn == Head(file_list) IN
         IF ~exists(fn) THEN [st EXCEPT !.status = "crash"]
         ELSE TarExtract(Tail(file_list),
                         [st EXCEPT !.tree = CopyTo(@, dir_name \o fn, fn)], dir_name)

\* the directory the module files are moved to
ModulesDir == << <<"user">>, <<"modules">> >>

\* "do not move module files in a directory with the same name"
InOwnDirectory(fn) ==
    /\ Len(fn) >= 2
    /\ fn[Len(fn) - 1] \o <<"qm">> = Last(fn)

\* the module relocation of the additive-prefix branch: os.rename of the
\* extracted module file into user/modules, once per base name
RECURSIVE MoveModules(_, _, _, _)
MoveModules(ulist, st, dir_name, done) ==
    IF ulist = <<>> \/ st.status # "ok" THEN st
    ELSE LET fn == Head(ulist)
             bn == basename(fn)
         IN  IF ~EndsWithExt(fn, "qm") \/ InOwnDirectory(fn) \/ bn \in done
             THEN MoveModules(Tail(ulist), st, dir_name, done)
             ELSE IF \A m \in st.tree : m.at # dir_name \o fn
                  THEN [st EXCEPT !.status = "crash"]
             ELSE MoveModules(Tail(ulist),
                    [st EXCEPT !.tree =
                        CopyTo({m \in @ : m.at # dir_name \o fn}, ModulesDir \o bn, fn)],
                    dir_name, done \cup {bn})

\* doCreateTar of path_component_list[0] in the temporary directory: what
\* is staged under the first component of the prefix
TarOf(tree, pdir) == {m \in tree : m.at[1] = pdir[1]}

NoStage == [status |-> "ok", tree |-> {}]

\* the flat-prefix branch of exec
StagePref(opts, user_file_list, file_list, resource_list) ==
    LET pdir == opts.pref
        base_dir == dirname(user_file_list[1])
        st1 == PrefCopy(file_list, NoStage, pdir, base_dir)
        st2 == doResources(resource_list, st1, pdir)
    IN  [status |-> st2.status,
         load_list |-> [i \in 1..Len(user_file_list) |-> basename(user_file_list[i])],
         archive |-> IF st2.status = "ok" THEN TarOf(st2.tree, pdir) ELSE {},
         tmp |-> TRUE]

\* the additive-prefix branch of exec
StagePadd(opts, ulist, user_file_list, file_list, resource_list) ==
    LET pdir == opts.padd
        st1 == doResources(resource_list, NoStage, pdir)
        st2 == TarExtract(file_list, st1, pdir)
        st3 == IF opts.mod THEN MoveModules(ulist, st2, pdir, {}) ELSE st2
    IN  [status |-> st3.status,
         load_list |-> [i \in 1..Len(user_file_list) |->
                            pdir \o basename(user_file_list[i])],
         archive |-> IF st3.status = "ok" THEN TarOf(st3.tree, pdir) ELSE {},
         tmp |-> TRUE]

\* (a variant whose load list is the whole file list)
StageNone_loads_file_list(user_file_list, file_list) ==
    LET st == TarExtract(file_list, NoStage, <<>>) IN
    [status |-> st.status,
     load_list |-> file_list,
     archive |-> IF st.status = "ok" THEN st.tree ELSE {},
     tmp |-> FALSE]

\* the branch of exec without relocation: the file list is archived as it is
StageNone(user_file_list, file_list) ==
    LET st == TarExtract(file_list, NoStage, <<>>) IN
    [status |-> st.status,
     load_list |-> user_file_list,
     archive |-> IF st.status = "ok" THEN st.tree ELSE {},
     tmp |-> FALSE]

\* the default of --python-dest: getPythonDestDir
PyDest ==
    << <<"user">>, <<"python">>, <<"lib">>, <<"pythonX", "Y">>, <<"site-packages">> >>

\* the repackaging for -a: the tar file is extracted into a directory of
\* the release directory, the module directory is copied below the
\* destination (copyFiles: copytree of a directory, copy of a file, an
\* exception for a path that is not there) and the tar file is made again
\* of everything in the directory
AddPythonModules(pymoddir, members) ==
    LET dest == PyDest \o basename(pymoddir) IN
    IF isdir(pymoddir)
    THEN [status |-> "ok",
          archive |-> {m \in members :
                          \A f \in RegularFiles :
                              ~(Len(f) > Len(pymoddir)
                                  /\ SubSeq(f, 1, Len(pymoddir)) = pymoddir
                                  /\ m.at = dest \o SubSeq(f, Len(pymoddir) + 1, Len(f)))}
                      \cup {[at |-> dest \o SubSeq(f, Len(pymoddir) + 1, Len(f)), src |-> f] :
                              f \in {g \in RegularFiles :
                                        Len(g) > Len(pymoddir)
                                            /\ SubSeq(g, 1, Len(pymoddir)) = pymoddir}}]
    ELSE IF CanOpen(pymoddir)
    THEN [status |-> "ok", archive |-> CopyTo(members, dest, pymoddir)]
    ELSE [status |-> "crash", archive |-> members]

\* ------------------------------------------------------------ manifest

\* the directory of the release file, <release dir>/<label>/releases
RootDir == << <<"/">>, <<"releases">> >>

\* fn.startswith(root_dir)
StartsWith(fn, root_dir) ==
    /\ Len(Str(root_dir)) <= Len(Str(fn))
    /\ SubSeq(Str(fn), 1, Len(Str(root_dir))) = Str(root_dir)

\* getLoadPath
getLoadPath(opts, fn0, root_dir) ==
    LET fn == IF StartsWith(fn0, root_dir)
              THEN ParsePath(PySliceFrom(Str(fn0), Len(Str(root_dir))))
              ELSE fn0
    IN  IF opts.pref # <<>> THEN join(opts.pref, fn)
        ELSE IF opts.padd # <<>> THEN join(opts.padd, fn)
        ELSE fn

\* a file of the load list gets a load line
IsLoadable(fn) == getExt(fn) # "" /\ getExt(fn) \in LoadFileTypes

Directive(kind, path) == [kind |-> kind, path |-> path]

\* (a variant that writes the load lines in the opposite order)
LoadLines_reversed(opts, load_list) ==
    LET loadable == SelectSeq(load_list, IsLoadable) IN
    [i \in 1..Len(loadable) |->
        Directive("load", getLoadPath(opts, loadable[Len(loadable) + 1 - i], RootDir))]

\* the load lines of createUserReleaseFile
LoadLines(opts, load_list) ==
    LET loadable == SelectSeq(load_list, IsLoadable) IN
    [i \in 1..Len(loadable) |-> Directive("load", getLoadPath(opts, loadable[i], RootDir))]

\* the omquser-exec-sql lines: one for each element of the -q option
SqlLines(opts) ==
    [i \in 1..Len(opts.usql) |->
        Directive("omquser-exec-sql", getLoadPath(opts, CharPath(opts.usql[i]), RootDir))]

\* the refresh line
RefreshLines(opts) ==
    IF opts.ref THEN <<Directive("refresh-recursive", <<>>)>>
    ELSE IF opts.rcompat THEN <<Directive("refresh-all", <<>>)>>
    ELSE <<>>

\* createUserReleaseFile: the lines of the release file after its header
createUserReleaseFile(opts, ulist, load_list) ==
    LoadLines(opts, IF load_list = <<>> THEN ulist ELSE load_list)
        \o SqlLines(opts) \o RefreshLines(opts)

\* ======================================================================
\* The two programs as state machines
\* ======================================================================

VARIABLES
    pc,          \* where the remote command client is
    cmd,         \* globals['cmd']['cmd']
    nodelete,    \* globals['nodelete'] == 'yes'
    words,       \* globals['cmd']['args']: the words after the command
    ofiles,      \* the file list of oload_handle
    oopts,       \* the option list of oload_handle
    remaining,   \* the files oload_upload_files has still to upload
    directory,   \* the remote directory
    cmdmsg,      \* the command message given to exec_cmd
    requests,    \* the requests sent so far, each with its outcome
    toUpload,    \* the set of files oload_add_files returned
    exitcode     \* the exit status of the process, -1 while it runs

rvars == <<pc, cmd, nodelete, words, ofiles, oopts, remaining, directory,
           cmdmsg, requests, toUpload, exitcode>>

\* the state of make-release
VARIABLES
    xpc,            \* where MakeRelease.exec is
    xargs,          \* self._args: the file arguments
    opts,           \* self._opts
    ulist,          \* self._ulist (user_file_list is the same list object)
    file_list,      \* file_list of exec: what makeList returned
    resource_list,  \* resource_list of exec
    load_list,      \* load_list of exec
    archive,        \* the members of the release tar file
    reldir,         \* the release directory has been created
    tmpdir,         \* the temporary directory: "none", "present", "deleted"
    pytmp,          \* the directory of the -a repackaging, likewise
    manifest,       \* the lines of the release file
    xexit           \* the exit status, -1 while the program runs

xvars == <<xpc, xargs, opts, ulist, file_list, resource_list, load_list, archive,
           reldir, tmpdir, pytmp, manifest, xexit>>

vars == <<rvars, xvars>>

\* the options of a run without options
NoOptions ==
    [pref |-> <<>>, padd |-> <<>>, mod |-> FALSE, keep |-> FALSE,
     usql |-> <<>>, ref |-> FALSE, rcompat |-> FALSE, pymoddir |-> <<>>]

\* make-release is not the program that runs
ReleaseOff ==
    /\ xpc = "off"
    /\ xargs = <<>>
    /\ opts = NoOptions
    /\ ulist = <<>>
    /\ file_list = <<>>
    /\ resource_list = <<>>
    /\ load_list = <<>>
    /\ archive = {}
    /\ reldir = FALSE
    /\ tmpdir = "none"
    /\ pytmp = "none"
    /\ manifest = <<>>
    /\ xexit = -1

NoMsg == [cmd |-> "", args |-> <<>>, files |-> <<>>, opts |-> <<>>, dir |-> NoHeader]

Request(method, dir, result) == [method |-> method, dir |-> dir, result |-> result]

\* sys.exit(code)
Exit(code) == pc' = "done" /\ exitcode' = code

InitRemote ==
    /\ pc = "main"
    /\ cmd \in {"oload", "ostatus"}
    /\ nodelete \in BOOLEAN
    /\ words \in SeqUpTo(RemoteWords, MaxArgs)
    /\ ofiles = <<>>
    /\ oopts = <<>>
    /\ remaining = {}
    /\ directory = ""
    /\ cmdmsg = NoMsg
    /\ requests = <<>>
    /\ toUpload = {}
    /\ exitcode = -1
    /\ ReleaseOff

\* main: oload goes through oload_handle, every other command to exec_cmd
Main ==
    /\ pc = "main"
    /\ IF cmd = "oload"
       THEN pc' = "parse" /\ UNCHANGED cmdmsg
       ELSE /\ pc' = "exec_token"
            /\ cmdmsg' = [NoMsg EXCEPT !.cmd = cmd, !.args = words]
    /\ UNCHANGED <<cmd, nodelete, words, ofiles, oopts, remaining, directory,
                   requests, exitcode, toUpload>>
    /\ UNCHANGED xvars

\* oload_handle: oloadparse_args
ParseArgs ==
    /\ pc = "parse"
    /\ ofiles' = oloadparse_files(words, FALSE)
    /\ oopts' = oloadparse_opts(words, FALSE)
    /\ pc' = "remove_dir"
    /\ UNCHANGED <<cmd, nodelete, words, remaining, directory, cmdmsg,
                   requests, exitcode, toUpload>>
    /\ UNCHANGED xvars

\* oload_handle: oload_remove_dir
RemoveDir ==
    /\ pc = "remove_dir"
    /\ ofiles' = oload_remove_dir(ofiles)
    /\ pc' = "remove_files"
    /\ UNCHANGED <<cmd, nodelete, words, oopts, remaining, directory, cmdmsg,
                   requests, exitcode, toUpload>>
    /\ UNCHANGED xvars

\* oload_handle: oload_remove_files
RemoveFiles ==
    /\ pc = "remove_files"
    /\ ofiles' = oload_remove_files(ofiles)
    /\ pc' = "add_files"
    /\ UNCHANGED <<cmd, nodelete, words, oopts, remaining, directory, cmdmsg,
                   requests, exitcode, toUpload>>
    /\ UNCHANGED xvars

\* oload_handle: oload_add_files(set(ofiles)); an exception in a scan ends
\* the process through remote_print_exception
AddFiles ==
    /\ pc = "add_files"
    /\ IF oload_add_files_raises(Range(ofiles))
       THEN Exit(1) /\ UNCHANGED <<remaining, toUpload>>
       ELSE /\ toUpload' = oload_add_files(Range(ofiles))
            /\ remaining' = toUpload'
            /\ pc' = "upload"
            /\ UNCHANGED exitcode
    /\ UNCHANGED <<cmd, nodelete, words, ofiles, oopts, directory, cmdmsg,
                   requests>>
    /\ UNCHANGED xvars

\* oload_upload_files: one pass of the loop, for the file the iteration of
\* the set yields next
UploadFile ==
    /\ pc = "upload"
    /\ \E ofile \in remaining :
         IF ~CanOpen(ofile)
         THEN \* open(ofile, 'rb') raises
              Exit(1) /\ UNCHANGED <<remaining, directory, requests>>
         ELSE LET hdr == IF NoDirectory(directory) THEN NoHeader ELSE directory IN
              \/ \* requests.post raises
                 /\ requests' = Append(requests, Request("POST", hdr, "raise"))
                 /\ Exit(1)
                 /\ UNCHANGED <<remaining, directory>>
              \/ \E body \in Bodies :
                   /\ requests' = Append(requests, Request("POST", hdr, body))
                   /\ IF IsHtmlError(body)
                      THEN Exit(1) /\ UNCHANGED <<remaining, directory>>
                      ELSE /\ directory' = IF NoDirectory(directory)
                                           THEN body ELSE directory
                           /\ remaining' = remaining \ {ofile}
                           /\ UNCHANGED <<pc, exitcode>>
    /\ UNCHANGED <<cmd, nodelete, words, ofiles, oopts, cmdmsg, toUpload>>
    /\ UNCHANGED xvars

\* oload_upload_files returns the directory (at once when there is no file),
\* and oload_handle fills in the command message
UploadReturn ==
    /\ pc = "upload"
    /\ remaining = {}
    /\ cmdmsg' = [cmd |-> cmd, args |-> <<>>,
                  files |-> oload_remove_dir_from_files(ofiles),
                  opts |-> oopts, dir |-> directory]
    /\ pc' = "exec_token"
    /\ UNCHANGED <<cmd, nodelete, words, ofiles, oopts, remaining, directory,
                   requests, exitcode, toUpload>>
    /\ UNCHANGED xvars

\* exec_cmd: the token request.  A status that is not 2xx raises, and every
\* exception ends the process through remote_print_exception.
ExecToken ==
    /\ pc = "exec_token"
    /\ \/ /\ requests' = Append(requests, Request("GET", NoHeader, "ok"))
          /\ pc' = "exec_ws"
          /\ UNCHANGED exitcode
       \/ \E failure \in {"status", "raise"} :
            /\ requests' = Append(requests, Request("GET", NoHeader, failure))
            /\ Exit(1)
    /\ UNCHANGED <<cmd, nodelete, words, ofiles, oopts, remaining, directory,
                   cmdmsg, toUpload>>
    /\ UNCHANGED xvars

\* what follows exec_cmd: deleting_directory in oload_handle, the end of main
\* for every other command
AfterExec ==
    IF cmd = "oload" THEN pc' = "delete" /\ UNCHANGED exitcode ELSE Exit(0)

\* exec_cmd: the websocket session (run_forever).  on_open sends the command;
\* on_error prints and returns; an exception in on_message ends the process
\* through remote_print_exception.
ExecWs ==
    /\ pc = "exec_ws"
    /\ \/ \* the connection fails: on_error, on_open never runs
          /\ requests' = Append(requests, Request("WS", NoHeader, "connect_error"))
          /\ AfterExec
       \/ \E result \in {"ok", "error"} :
            \* the command is sent and completes, or on_error is called
            /\ requests' = Append(requests, Request("WS", cmdmsg.dir, result))
            /\ AfterExec
       \/ \* the command is sent and a message of the server makes on_message raise
          /\ requests' = Append(requests, Request("WS", cmdmsg.dir, "bad_message"))
          /\ Exit(1)
    /\ UNCHANGED <<cmd, nodelete, words, ofiles, oopts, remaining, directory,
                   cmdmsg, toUpload>>
    /\ UNCHANGED xvars

\* deleting_directory(directory), then the end of main
DeleteDir ==
    /\ pc = "delete"
    /\ IF nodelete
       THEN Exit(0) /\ UNCHANGED requests
       ELSE \/ /\ requests' = Append(requests, Request("DELETE", directory, "ok"))
               /\ Exit(0)
            \/ \* requests.delete raises: remote_print_exception
               /\ requests' = Append(requests, Request("DELETE", directory, "raise"))
               /\ Exit(1)
    /\ UNCHANGED <<cmd, nodelete, words, ofiles, oopts, remaining, directory,
                   cmdmsg, toUpload>>
    /\ UNCHANGED xvars

NextRemote ==
    \/ Main
    \/ ParseArgs
    \/ RemoveDir
    \/ RemoveFiles
    \/ AddFiles
    \/ UploadFile
    \/ UploadReturn
    \/ ExecToken
    \/ ExecWs
    \/ DeleteDir

\* the remote command client has not been started
RemoteOff ==
    /\ pc = "off"
    /\ cmd = ""
    /\ nodelete = FALSE
    /\ words = <<>>
    /\ ofiles = <<>>
    /\ oopts = <<>>
    /\ remaining = {}
    /\ directory = ""
    /\ cmdmsg = NoMsg
    /\ requests = <<>>
    /\ toUpload = {}
    /\ exitcode = -1

SpecRemote == InitRemote /\ [][NextRemote]_vars

\* ------------------------------------------------------------ the run of make-release

\* the prefixes the -p and -P options are drawn from
Prefixes == { << <<"opt">> >> }

\* the wildcard arguments "*.qsd", which matches a.qsd, and "*.qwf", which
\* matches nothing
G_qsd  == << <<"*", "qsd">> >>
G_none == << <<"*", "qwf">> >>

\* The file arguments of a command line are drawn from one of these groups.
ArgGroups ==
    { {P_a, P_svc, P_svcpy},
      {P_a, P_d, P_job},
      {P_a, G_qsd, G_none, P_missing},
      {P_svc, P_mod, P_ownmod},
      {P_bad, P_half, P_api},
      {P_job, P_xsvc, P_gsvc},
      {P_a, P_liba, P_ssvc}, {P_a, P_out, P_osvc} }

\* the file arguments a command line is drawn from
ReleaseWords == UNION ArgGroups

\* the values of the -q option: not given, "q", "sq"
UsqlValues == {<<>>, <<"q">>, <<"s", "q">>}

\* the values of the -a option: a directory, a path that is not there
PyModValues == {P_py, P_nopy}

\* the options a command line can give, each with the value parse_known_args
\* stores for it
OptionSettings ==
    {[name |-> "pref", value |-> p] : p \in Prefixes}
    \cup {[name |-> "padd", value |-> p] : p \in Prefixes}
    \cup {[name |-> n, value |-> TRUE] : n \in {"mod", "keep", "ref", "rcompat"}}
    \cup {[name |-> "usql", value |-> u] : u \in UsqlValues \ {<<>>}}
    \cup {[name |-> "pymoddir", value |-> d] : d \in PyModValues}

\* the options given on a command line: at most MaxOpts, none twice
OptionSets ==
    {S \in SUBSET OptionSettings :
        /\ Cardinality(S) <= MaxOpts
        /\ \A v, w \in S : v.name = w.name => v = w}

\* self._opts for the options given
OptionsOf(S) ==
    [f \in DOMAIN NoOptions |->
        IF \E w \in S : w.name = f
        THEN (CHOOSE w \in S : w.name = f).value
        ELSE NoOptions[f]]

XExit(code) == xpc' = "done" /\ xexit' = code

InitRelease ==
    /\ xpc = "check"
    /\ \E g \in ArgGroups : xargs \in SeqUpTo(g, MaxArgs)
    /\ \E S \in OptionSets : opts = OptionsOf(S)
    /\ ulist = <<>>
    /\ file_list = <<>>
    /\ resource_list = <<>>
    /\ load_list = <<>>
    /\ archive = {}
    /\ reldir = FALSE
    /\ tmpdir = "none"
    /\ pytmp = "none"
    /\ manifest = <<>>
    /\ xexit = -1
    /\ RemoteOff

\* exec: checkFiles(self._args)
CheckFiles ==
    /\ xpc = "check"
    /\ \E r \in checkFiles(xargs) :
         IF r.status = "ok"
         THEN ulist' = r.ulist /\ xpc' = "dirs" /\ UNCHANGED xexit
         ELSE XExit(1) /\ UNCHANGED ulist
    /\ UNCHANGED <<xargs, opts, file_list, resource_list, load_list, archive,
                   reldir, tmpdir, pytmp, manifest>>
    /\ UNCHANGED rvars

\* exec: the release directory, install.sh and the releases directory; a run
\* without files ends here
ReleaseDirs ==
    /\ xpc = "dirs"
    /\ reldir' = TRUE
    /\ IF ulist # <<>> THEN xpc' = "makelist" /\ UNCHANGED xexit ELSE XExit(0)
    /\ UNCHANGED <<xargs, opts, ulist, file_list, resource_list, load_list,
                   archive, tmpdir, pytmp, manifest>>
    /\ UNCHANGED rvars

\* exec: "user_file_list += self._opts.usql", makeList, and the default
\* prefix "user" of a release with resources
MakeList ==
    /\ xpc = "makelist"
    /\ LET user_file_list == ulist \o UsqlItems(opts.usql)
           r == makeList(user_file_list)
       IN  /\ ulist' = user_file_list
           /\ IF r.status = "ok"
              THEN /\ file_list' = r.made
                   /\ resource_list' = r.res
                   /\ opts' = IF opts.pref = <<>> /\ opts.padd = <<>> /\ r.res # <<>>
                              THEN [opts EXCEPT !.padd = << <<"user">> >>]
                              ELSE opts
                   /\ xpc' = "stage"
                   /\ UNCHANGED xexit
              ELSE XExit(1) /\ UNCHANGED <<file_list, resource_list, opts>>
    /\ UNCHANGED <<xargs, load_list, archive, reldir, tmpdir, pytmp, manifest>>
    /\ UNCHANGED rvars

\* exec: the branch of the relocation mode
StageOf(o, ul, fl, rl) ==
    IF o.pref # <<>> THEN StagePref(o, ul, fl, rl)
    ELSE IF o.padd # <<>> THEN StagePadd(o, ul, ul, fl, rl)
    ELSE StageNone(ul, fl)

\* exec: staging and the tar file.  The finally clause removes the temporary
\* directory unless --keep was given; an exception ends the run.
Stage ==
    /\ xpc = "stage"
    /\ LET r == StageOf(opts, ulist, file_list, resource_list) IN
         /\ tmpdir' = IF ~r.tmp THEN "none"
                       ELSE IF opts.keep THEN "present" ELSE "deleted"
         /\ IF r.status = "ok"
            THEN /\ load_list' = r.load_list
                 /\ archive' = r.archive
                 /\ xpc' = IF opts.pymoddir # <<>> THEN "pymod" ELSE "manifest"
                 /\ UNCHANGED xexit
            ELSE XExit(1) /\ UNCHANGED <<load_list, archive>>
    /\ UNCHANGED <<xargs, opts, ulist, file_list, resource_list, reldir, pytmp,
                   manifest>>
    /\ UNCHANGED rvars

\* exec: "if self._opts.pymoddir".  The directory of the repackaging is
\* made and removed outside every try: an exception of copyFiles ends the
\* run with the directory in place.
PyModule ==
    /\ xpc = "pymod"
    /\ LET r == AddPythonModules(opts.pymoddir, archive) IN
         IF r.status = "ok"
         THEN /\ archive' = r.archive
              /\ pytmp' = "deleted"
              /\ xpc' = "manifest"
              /\ UNCHANGED xexit
         ELSE /\ pytmp' = "present"
              /\ XExit(1)
              /\ UNCHANGED archive
    /\ UNCHANGED <<xargs, opts, ulist, file_list, resource_list, load_list,
                   reldir, tmpdir, manifest>>
    /\ UNCHANGED rvars

\* exec: createUserReleaseFile, and the end of the run
WriteManifest ==
    /\ xpc = "manifest"
    /\ manifest' = createUserReleaseFile(opts, ulist, load_list)
    /\ XExit(0)
    /\ UNCHANGED <<xargs, opts, ulist, file_list, resource_list, load_list,
                   archive, reldir, tmpdir, pytmp>>
    /\ UNCHANGED rvars

NextRelease ==
    \/ CheckFiles
    \/ ReleaseDirs
    \/ MakeList
    \/ Stage
    \/ PyModule
    \/ WriteManifest

SpecRelease == InitRelease /\ [][NextRelease]_vars

\* ------------------------------------------------------------ both programs

Init == InitRemote \/ InitRelease

Next == NextRemote \/ NextRelease

Spec == Init /\ [][Next]_vars

\* ----------------------------------------------------------------------
\* Properties of the remote command client
\* ----------------------------------------------------------------------

\* the upload requests sent so far, in order
Posts == SelectSeq(requests, LAMBDA r : r.method = "POST")

\* the result of a request says that it failed
Failed(r) == r.result \in {HTML, "raise", "status", "connect_error", "error", "bad_message"}

\* C1: when oload_upload_files has returned after N >= 1 uploads, the first
\* upload is the only one sent without a dir header, the body of its response
\* is the dir header of every later upload, and it is the directory returned.
C1_DirectoryRequestedOnce ==
    (cmd = "oload" /\ pc = "exec_token" /\ Len(Posts) >= 1) =>
        /\ Posts[1].dir = NoHeader
        /\ \A i \in 2..Len(Posts) : Posts[i].dir = Posts[1].result
        /\ directory = Posts[1].result

\* C2: an upload answered with an HTML error document is the last request of
\* the run, and the process has ended with exit status 1.
C2_HtmlResponseAborts ==
    \A i \in 1..Len(requests) :
        (requests[i].method = "POST" /\ requests[i].result = HTML) =>
            /\ i = Len(requests)
            /\ pc = "done"
            /\ exitcode = 1

\* C2 witness: the second or a later upload, sent with the directory, is
\* answered with the HTML document while other files are still to be uploaded.
C2_Witness ==
    /\ Len(requests) >= 2
    /\ Last(requests).method = "POST"
    /\ Last(requests).result = HTML
    /\ Last(requests).dir # NoHeader
    /\ Cardinality(remaining) >= 2
    /\ pc = "done"

\* C3: an oload run that allocated a directory, was not told nodelete and
\* reached the remote command ends with the DELETE request for the directory.
C3_DeleteAfterCommand ==
    ( /\ pc = "done"
      /\ cmd = "oload"
      /\ ~nodelete
      /\ directory # ""
      /\ \E i \in 1..Len(requests) : requests[i].method = "GET" ) =>
        /\ Last(requests).method = "DELETE"
        /\ Last(requests).dir = directory

\* C4: when the remote command succeeded and the DELETE request for the
\* allocated directory fails, the exit status is 0.
C4_DeleteFailureKeepsResult ==
    ( /\ pc = "done"
      /\ directory # ""
      /\ \E i \in 1..Len(requests) :
            requests[i].method = "WS" /\ requests[i].result = "ok"
      /\ Last(requests).method = "DELETE"
      /\ Last(requests).result = "raise" ) =>
        exitcode = 0

\* C5: the exit status is 0 only when every file given exists, and every
\* upload, the token request and the websocket session succeeded.
C5_ExitZeroOnlyOnSuccess ==
    (pc = "done" /\ exitcode = 0) =>
        /\ cmd = "oload" =>
              \A f \in Range(oloadparse_files(words, FALSE)) : exists(f)
        /\ \A i \in 1..Len(requests) :
              requests[i].method # "DELETE" => ~Failed(requests[i])

\* ----------------------------------------------------------------------
\* Properties of the resolved file sets
\* ----------------------------------------------------------------------

\* makeList has returned: file_list is the resolved list of the release
Resolved ==
    xpc \in {"stage", "pymod", "manifest"} \/ (xpc = "done" /\ file_list # <<>>)

\* oload_add_files has returned: toUpload is the upload set
UploadSetKnown == cmd = "oload" /\ pc \in {"upload", "exec_token", "exec_ws", "delete"}

\* the regular files below a directory
Under(d) ==
    {f \in RegularFiles : Len(f) > Len(d) /\ SubSeq(f, 1, Len(d)) = d}

\* the files a resource reference names: the path itself, the files a glob
\* matches, and the files below a directory named or matched
NamedByResource(path) ==
    IF HasWildcard(path)
    THEN {g \in glob(path) : ~isdir(g)} \cup UNION {Under(g) : g \in {h \in glob(path) : isdir(h)}}
    ELSE IF isdir(path) THEN Under(path) ELSE {path}

\* the files the references of the file e name: the code file, the resource
\* files and the schema file of a descriptor, the load lines of a manifest
NamedBy(e) ==
    LET doc == YamlDoc(e)
        here(ref) == join(dirname(e), ref)
    IN  (IF doc.code # <<>> THEN {here(doc.code)} ELSE {})
        \cup UNION {UNION {NamedByResource(here(doc.res[k][i])) :
                               i \in 1..Len(doc.res[k])} : k \in DOMAIN doc.res}
        \cup (IF doc.schema # <<>> THEN {here(doc.schema)} ELSE {})
        \cup {here(QrfLoads(e)[i]) : i \in 1..Len(QrfLoads(e))}

\* what is reachable from the files of S by chains of references
RECURSIVE ReachableFrom(_)
ReachableFrom(S) ==
    LET more == S \cup UNION {NamedBy(e) : e \in S} IN
    IF more = S THEN S ELSE ReachableFrom(more)

\* C6: the resolved file list of a release holds no path twice.
C6_ResolvedListHasNoDuplicates ==
    Resolved =>
        \A i, j \in 1..Len(file_list) : i # j => file_list[i] # file_list[j]

ManifestClosure(m) ==
    LET loaded == {join(dirname(m), QrfLoads(m)[i]) : i \in 1..Len(QrfLoads(m))} IN
    loaded \cup UNION {NamedBy(l) : l \in {x \in loaded : IsYamlName(x)}}

\* C8: the upload set holds the whole closure of every .qrf file given.
C8_UploadSetHoldsManifestClosure ==
    UploadSetKnown =>
        \A m \in Range(ofiles) :
            EndsWithExt(m, "qrf") => ManifestClosure(m) \subseteq toUpload

\* ----------------------------------------------------------------------
\* Properties of the release manifest
\* ----------------------------------------------------------------------

\* the release file has been written
ManifestWritten == xpc = "done" /\ xexit = 0 /\ ulist # <<>>

\* the load directives of the manifest, in order
Loads == SelectSeq(manifest, LAMBDA d : d.kind = "load")

\* the file f is named by the command-line argument arg: it is the argument,
\* the argument is a pattern that matches it, or a directory that holds it
NamedByArg(arg, f) ==
    \/ f = arg
    \/ f \in Under(arg)
    \/ HasWildcard(arg) /\ (f \in glob(arg) \/ \E g \in glob(arg) : f \in Under(g))

\* the explicit files that get a load directive, in the order of the list
LoadableExplicit == SelectSeq(ulist, IsLoadable)

\* C9: the load directives are those of the loadable explicit files, one by
\* one in the order in which the arguments name the files, and no
\* omquser-exec-sql directive precedes a load directive; in every mode.
C9_ManifestOrder ==
    ManifestWritten =>
        /\ Len(Loads) = Len(LoadableExplicit)
        /\ \A k \in 1..Len(Loads) :
              basename(Loads[k].path) = basename(LoadableExplicit[k])
        /\ \E g \in [1..Len(LoadableExplicit) -> 1..Len(xargs)] :
              /\ \A k \in 1..Len(LoadableExplicit) :
                    NamedByArg(xargs[g[k]], LoadableExplicit[k])
              /\ \A k, l \in 1..Len(LoadableExplicit) : k < l => g[k] <= g[l]
        /\ \A i, j \in 1..Len(manifest) :
              (manifest[i].kind = "omquser-exec-sql" /\ manifest[j].kind = "load")
                  => j < i

\* C9 witness: a relocated release of two arguments and an SQL file, with
\* load directives for two different files.
C9_Witness ==
    /\ ManifestWritten
    /\ opts.pref # <<>> \/ opts.padd # <<>>
    /\ Len(xargs) >= 2
    /\ Len(Loads) >= 2
    /\ basename(Loads[1].path) # basename(Loads[2].path)
    /\ \E i \in 1..Len(manifest) : manifest[i].kind = "omquser-exec-sql"

\* the explicit descriptors with a readable code file of a loadable
\* extension that is not given explicitly, each with its code file
DerivedLoadable ==
    { <<e, join(dirname(e), YamlDoc(e).code)>> :
        e \in {x \in Range(ulist) :
                 /\ EndsWithExt(x, "yaml")
                 /\ YamlDoc(x).code # <<>>
                 /\ is_readable(join(dirname(x), YamlDoc(x).code))
                 /\ IsLoadable(join(dirname(x), YamlDoc(x).code))
                 /\ join(dirname(x), YamlDoc(x).code) \notin Range(ulist)} }

UnmatchedWildcard == \E i \in 1..Len(xargs) : HasWildcard(xargs[i]) /\ glob(xargs[i]) = {}

\* nothing of a release has been created: no release directory, temporary
\* directory, archive or manifest
NoSideEffect ==
    /\ ~reldir
    /\ tmpdir = "none"
    /\ pytmp = "none"
    /\ archive = {}
    /\ manifest = <<>>

\* C11: a run with a wildcard argument that matches nothing never gets past
\* checkFiles: it has no side effect, and it ends with exit status 1.
C11_UnmatchedWildcardExitsFirst ==
    UnmatchedWildcard =>
        /\ xpc \in {"check", "done"}
        /\ NoSideEffect
        /\ xpc = "done" => xexit = 1

\* C11 witness: the run of "a.qsd *.qwf" has ended.
C11_Witness ==
    /\ xpc = "done"
    /\ xexit = 1
    /\ Len(xargs) >= 2
    /\ xargs[1] = P_a
    /\ xargs[2] = G_none

\* the processing of the YAML descriptor e raises an error: it cannot be
\* opened, it is no YAML, or a value of it has not the type the code expects
ProcessingRaises(e) ==
    /\ EndsWithExt(e, "yaml")
    /\ ~CanOpen(e) \/ ~YamlDoc(e).valid \/ YamlDoc(e).bad_am

\* the code file the descriptor e declares
CodeOf(e) == join(dirname(e), YamlDoc(e).code)

\* C12: in the resolved list of a release, a descriptor whose processing
\* raises is itself listed with every other explicit file, its code file is
\* not listed on its account, and no resource of it is in the resource list.
C12_FailedDescriptorAddsNothing ==
    Resolved =>
        /\ Range(ulist) \subseteq Range(file_list)
        /\ \A e \in Range(ulist) :
              ProcessingRaises(e) =>
                  /\ ( /\ YamlDoc(e).code # <<>>
                       /\ CodeOf(e) \notin Range(ulist)
                       /\ \A x \in Range(ulist) :
                             (~ProcessingRaises(x) /\ YamlDoc(x).code # <<>>)
                                 => CodeOf(x) # CodeOf(e) )
                        => CodeOf(e) \notin Range(file_list)
                  /\ \A i \in 1..Len(resource_list) :
                        \A k \in 1..Len(ResourceNames(YamlDoc(e))) :
                            resource_list[i].source
                                # join(dirname(e), ResourceNames(YamlDoc(e))[k])

\* C13: an oload run given a YAML file that cannot be parsed does not end in
\* the resolver: when it has ended, the upload set has been computed, holds
\* the files given, and uploads have been sent.
C13_BadDescriptorDoesNotAbortUpload ==
    ( /\ cmd = "oload"
      /\ pc = "done"
      /\ \E f \in Range(ofiles) : IsYamlName(f) /\ CanOpen(f) /\ ~YamlDoc(f).valid ) =>
        /\ Range(ofiles) \subseteq toUpload
        /\ \E i \in 1..Len(requests) : requests[i].method = "POST"

\* the service descriptor e, processed without error, declares a resource or
\* schema that is not there: a name without wildcard that does not exist, a
\* pattern that matches nothing
BrokenReference(e) ==
    /\ IsServiceDescriptor(e)
    /\ ~ProcessingRaises(e)
    /\ \E k \in 1..Len(ResourceNames(YamlDoc(e))) :
          LET path == join(dirname(e), ResourceNames(YamlDoc(e))[k]) IN
          IF HasWildcard(path) THEN glob(path) = {} ELSE ~exists(path)

ArchiveWritten == xpc \in {"manifest", "done"} /\ archive # {} /\ opts.pymoddir = <<>>

\* the release is made under additive-prefix relocation
AdditivePrefix == opts.pref = <<>> /\ opts.padd # <<>>

\* the resource files of the service descriptors of the file list
ResourceFiles ==
    UNION { UNION { NamedByResource(join(dirname(e), ResourceNames(YamlDoc(e))[k])) :
                      k \in 1..Len(ResourceNames(YamlDoc(e))) } :
            e \in {x \in Range(file_list) : IsServiceDescriptor(x) /\ ~ProcessingRaises(x)} }

\* a module file that the module relocation may move
RelocatedModule(f) == opts.mod /\ EndsWithExt(f, "qm")

\* C15: under additive-prefix relocation every member of the archive is a
\* file stored at <prefix>/<its path in the source root>, and every file of
\* the file list and every resource file is a member; module files under
\* module relocation apart.
C15_AdditivePrefixKeepsPaths ==
    (ArchiveWritten /\ AdditivePrefix) =>
        /\ \A m \in archive :
              ~RelocatedModule(m.src) => m.at = opts.padd \o m.src
        /\ \A f \in Range(file_list) \cup ResourceFiles :
              ~RelocatedModule(f) => [at |-> opts.padd \o f, src |-> f] \in archive

\* the directory sub lies below the directory base
ProperSubdirectory(sub, base) ==
    Len(sub) > Len(base) /\ SubSeq(sub, 1, Len(base)) = base

\* C16: under flat-prefix relocation a file of a proper subdirectory of the
\* base directory is stored below the prefix at its path relative to the
\* base directory, so that it and a file of the same name in the base
\* directory are both members of the archive.
C16_FlatPrefixKeepsSubdirectories ==
    (ArchiveWritten /\ opts.pref # <<>>) =>
        LET base_dir == dirname(ulist[1]) IN
        \A f, g \in Range(file_list) :
            ( /\ dirname(f) = base_dir
              /\ ProperSubdirectory(dirname(g), base_dir)
              /\ basename(f) = basename(g) ) =>
                /\ \E m \in archive : m.src = f
                /\ [at |-> opts.pref \o SubSeq(g, Len(base_dir) + 1, Len(g)), src |-> g]
                       \in archive

\* ---------------------------------------------------------------------
\* Properties of the temporary directories

\* C17: a temporary staging directory that was created (the one of the
\* prefix branches, the one of the repackaging with Python modules) is gone
\* when the run has ended, on success and on failure, unless --keep was
\* given.
C17_StagingDirectoryRemoved ==
    (xpc = "done" /\ ~opts.keep) => (tmpdir # "present" /\ pytmp # "present")

\* ---------------------------------------------------------------------
\* Properties of the descriptors of a release

\* the names in the resource-kind fields of a descriptor
ResourceKindNames(doc) ==
    doc.res.resource \o doc.res.text_resource \o doc.res.bin_resource
        \o doc.res.template

\* the entry of the resource list for the name n in the descriptor e
ResourceEntry(e, n) == [source |-> join(dirname(e), n), target |-> n]

\* the YAML descriptors of the file list whose processing went through
Descriptors ==
    {e \in Range(file_list) : EndsWithExt(e, "yaml") /\ ~ProcessingRaises(e)}

\* C18: the resource-kind fields count for service descriptors (.qsd.yaml)
\* only, the code file and the api-manager schema file count for every
\* YAML descriptor: a resource named by a descriptor that is no service
\* descriptor is in the resource list only if a service descriptor names it,
\* the readable code file of every descriptor is in the file list, and the
\* schema file of every descriptor is in the resource list.
C18_DescriptorFieldsByKind ==
    Resolved =>
        \A e \in Descriptors :
            LET doc == YamlDoc(e) IN
            /\ ~IsServiceDescriptor(e) =>
                 \A k \in 1..Len(ResourceKindNames(doc)) :
                    ResourceEntry(e, ResourceKindNames(doc)[k]) \in Range(resource_list) =>
                        \E s \in Descriptors :
                            /\ IsServiceDescriptor(s)
                            /\ \E j \in 1..Len(ResourceNames(YamlDoc(s))) :
                                   ResourceEntry(s, ResourceNames(YamlDoc(s))[j])
                                       = ResourceEntry(e, ResourceKindNames(doc)[k])
            /\ (doc.code # <<>> /\ is_readable(CodeOf(e))) => CodeOf(e) \in Range(file_list)
            /\ doc.schema # <<>> => ResourceEntry(e, doc.schema) \in Range(resource_list)

\* makeList has been called and has returned or ended the run
ListMade ==
    xpc \in {"stage", "pymod", "manifest"} \/ (xpc = "done" /\ reldir /\ ulist # <<>>)

\* the explicit old-style service files with marker lines that name
\* resources that are there
LegacyServices ==
    {e \in Range(ulist) :
        /\ EndsWithExt(e, "qsd")
        /\ CanOpen(e)
        /\ LegacyMarkers(e) # <<>>
        /\ \A k \in 1..Len(LegacyMarkers(e)) :
              is_readable(join(dirname(e), LegacyMarkers(e)[k]))}

\* C19: the resource named by a marker line of an explicit old-style
\* service file (.qsd) is in the resource list, whether or not a resource was
\* found before the file, and the run goes on: where nothing else of the
\* list ends the run, makeList returns the file list.
C19_LegacyMarkersAddResources ==
    (ListMade /\ \A x \in Range(ulist) : ~BrokenReference(x) /\ CanOpen(x)) =>
        \A e \in LegacyServices :
            /\ file_list # <<>>
            /\ \A k \in 1..Len(LegacyMarkers(e)) :
                  ResourceEntry(e, LegacyMarkers(e)[k]) \in Range(resource_list)

\* ---------------------------------------------------------------------
\* Properties of the module relocation

\* C20: under additive-prefix relocation with module relocation every
\* explicit module file (.qm) outside a directory of its own name is a member
\* of the archive in the modules directory, whatever the prefix, and every
\* module file in a directory of its own name is a member at its prefixed
\* path: no module file is missing from the archive.
C20_ModulesAreInTheArchive ==
    (ArchiveWritten /\ AdditivePrefix /\ opts.mod) =>
        \A f \in {x \in Range(ulist) : EndsWithExt(x, "qm")} :
            IF InOwnDirectory(f)
            THEN [at |-> opts.padd \o f, src |-> f] \in archive
            ELSE [at |-> ModulesDir \o basename(f), src |-> f] \in archive

\* ---------------------------------------------------------------------
\* Properties of the paths of a release

\* the number of ".." components less the number of other components among
\* the first k components of the path
RECURSIVE Climb(_, _)
Climb(p, k) ==
    IF k = 0 THEN 0
    ELSE Climb(p, k - 1) + (IF p[k] = <<"..">> THEN 1 ELSE -1)

\* the path leads outside the directory it is relative to
Escapes(p) == ~isabs(p) /\ \E k \in 1..Len(p) : Climb(p, k) > 0

\* an argument, or a resource name of a service descriptor among the
\* files, leads outside the source root
TraversalGiven ==
    \/ \E i \in 1..Len(xargs) : Escapes(xargs[i])
    \/ \E e \in Range(ulist) :
          /\ IsServiceDescriptor(e) /\ ~ProcessingRaises(e)
          /\ \E k \in 1..Len(ResourceNames(YamlDoc(e))) :
                Escapes(join(dirname(e), ResourceNames(YamlDoc(e))[k]))

\* C21: an argument or a resource name that leads outside the source root
\* through ".." ends the run with exit 1 as an absolute path does, before
\* archive and manifest; no file outside the source root is in the file
\* lists or the resource list.
C21_TraversalIsRejected ==
    /\ TraversalGiven =>
          /\ xpc \in {"check", "dirs", "makelist", "done"}
          /\ archive = {} /\ manifest = <<>>
          /\ xpc = "done" => xexit = 1
    /\ \A f \in Range(ulist) \cup Range(file_list) : ~Escapes(f)
    /\ \A i \in 1..Len(resource_list) : ~Escapes(resource_list[i].source)

\* C22: in every relocation mode the path of the load directive of an
\* explicit file is the path at which the archive of the run stores that
\* file.
C22_LoadPathIsArchivePath ==
    (ManifestWritten /\ opts.pymoddir = <<>>) =>
        \A k \in 1..Len(Loads) :
            k <= Len(LoadableExplicit) =>
                [at |-> Loads[k].path, src |-> LoadableExplicit[k]] \in archive

\* ---------------------------------------------------------------------
\* Properties of the file list of oload

\* C23: after oload_remove_dir and oload_remove_files the file list holds no
\* directory and no path that does not exist, whatever the arguments, and
\* the existing regular files of the arguments are in it in their order.
C23_FilteredListHoldsFilesOnly ==
    (cmd = "oload" /\ pc = "add_files") =>
        /\ \A i \in 1..Len(ofiles) : exists(ofiles[i]) /\ ~isdir(ofiles[i])
        /\ SelectSeq(ofiles, CanOpen) = SelectSeq(oloadparse_files(words, FALSE), CanOpen)

\* ---------------------------------------------------------------------
\* Properties of the removal of the remote directory

\* C24: a DELETE request names a directory that the response of an upload
\* of this run gave; after an empty upload set, with no upload made and no
\* directory given, there is no DELETE request.
C24_DeleteOnlyOfAllocatedDirectory ==
    cmd = "oload" =>
        \A i \in 1..Len(requests) :
            requests[i].method = "DELETE" =>
                /\ toUpload # {}
                /\ \E j \in 1..(i - 1) :
                      /\ requests[j].method = "POST"
                      /\ requests[j].result = requests[i].dir

====
